---- MODULE Spec2Model ----
(***************************************************************************)
(* Pro Tools Recording Light Controller                                    *)
(* (src/recording_lights_controller.py).                                   *)
(*                                                                         *)
(* The controller is one asyncio event loop.  monitor_midi polls the MIDI  *)
(* input and runs the handler of each message to completion (the handler   *)
(* chain never suspends: its awaits are coroutine calls that return        *)
(* without yielding), so one message is one atomic step.  A debounced      *)
(* light change is an asyncio.Task created by the handler: it sleeps for   *)
(* debounce_time and then calls DeviceManager.control_all_devices, which   *)
(* gathers one _control_single_device coroutine per resolved device.       *)
(*                                                                         *)
(* Time is counted in ticks of 50 ms.  A timer that is due runs before     *)
(* the loop's clock moves on (the loop never blocks: get_message is a      *)
(* non-blocking poll and every wait is an asyncio sleep), so Tick is       *)
(* disabled while a sleeping task is due; a message handled in the tick    *)
(* in which the timer is due may still run first and cancel the task.      *)
(***************************************************************************)
EXTENDS Integers, Sequences, FiniteSets

\* ------------------------------------------------------------------ bounds
\* Roster entries (DeviceConfig) of the configuration.
NumRoster == 2
\* Debounced tasks created in one run.
MaxTasks == 3
\* Last tick of the clock.
MaxTime == 4

\* --------------------------------------------------------------- constants
\* status byte of a control-change message
CC_STATUS == 176
\* MidiConfig.cc_play and MidiConfig.cc_record (the documented controls)
cc_play == 117
cc_record == 118

Roster == 1..NumRoster

\* Messages the input port can deliver: control changes on the play, record
\* and another control (7), note-ons (status 144), and a two-byte message.
MidiValues == {0, 127}
Messages ==
    {<<CC_STATUS, c, v>> : c \in {cc_play, cc_record}, v \in MidiValues}
    \cup {<<CC_STATUS, 7, 127>>, <<144, cc_play, 127>>, <<CC_STATUS, cc_play>>}

\* Configured debounce times of the free-running model, in ticks.
DebounceTimes == {2}

VARIABLES
    config,          \* the configuration file read at startup
    phase,           \* position of main and RecordingLightController.run
    debounce_time,   \* MidiConfig.debounce_time, in ticks
    devices,         \* DeviceManager.devices: the matched roster entries
    ip_address,      \* the roster entries whose DeviceConfig.ip_address is set
    playing,         \* MidiHandler.playing
    record_enabled,  \* MidiHandler.record_enabled
    scheduled_task,  \* MidiHandler.scheduled_task: 0 (None) or a task
    tasks,           \* every asyncio.Task made by create_task, in order
    fanlog,          \* the calls of control_all_devices, in order
    failure_log,     \* the devices with a logged "Failed to turn ..." error
    now,             \* the loop's clock, in ticks
    script,          \* a scripted session of the DAW: <<[at, msg], ...>>
    script_pos       \* how many scripted messages have been handled

vars == <<config, phase, debounce_time, devices, ip_address,
          playing, record_enabled,
          scheduled_task, tasks, fanlog, failure_log, now, script,
          script_pos>>

\* -------------------------------------------------------------- the tasks
\* A task of _debounced_light_change(lights_on): it sleeps until `deadline`
\* ("sleeping"), then runs control_all_devices ("firing") until every
\* command has an outcome ("done"); cancel() ends it ("cancelled").
\* deadline is the timer of the sleep and is 0 once the sleep is over.
\* cmd[d] is the _control_single_device coroutine of device d while the
\* gather holds it: "idle" (none), "inflight" (turn_on/turn_off awaited),
\* "ok", "failed" (the call raised, caught and logged), "cancelled"
\* (CancelledError thrown into the awaited call).  When the gather ends, by
\* returning or by cancellation, the finished coroutines are gone and their
\* outcomes are log lines only; those cancelled in flight stay marked.
NoCommands == [d \in Roster |-> "idle"]

\* A sleep one tick short of the debounce time.
NewTaskShortSleep(lights_on, wake) ==
    [state |-> "sleeping", lights_on |-> lights_on,
     deadline |-> wake - 1, cmd |-> NoCommands]

\* asyncio.create_task(self._debounced_light_change(lights_on)): the new
\* task sleeps until `wake`.
NewTask(lights_on, wake) ==
    [state |-> "sleeping", lights_on |-> lights_on,
     deadline |-> wake, cmd |-> NoCommands]

\* A cancel() that a sleeping task does not notice.
CancelIgnored(t) ==
    IF t.state = "firing"
    THEN [t EXCEPT !.state = "cancelled",
                   !.cmd = [d \in Roster |->
                              IF t.cmd[d] = "inflight" THEN "cancelled"
                              ELSE "idle"]]
    ELSE t

\* Task.cancel(): a sleeping task never runs past its sleep; a task that
\* awaits the gather has the gather and with it every child still running
\* cancelled; a finished task is left alone.
CancelOne(t) ==
    IF t.state = "sleeping"
    THEN [t EXCEPT !.state = "cancelled", !.deadline = 0]
    ELSE IF t.state = "firing"
    THEN [t EXCEPT !.state = "cancelled",
                   !.cmd = [d \in Roster |->
                              IF t.cmd[d] = "inflight" THEN "cancelled"
                              ELSE "idle"]]
    ELSE t

\* The machine state the handlers read and write.
MidiState(p, r, s, ts) ==
    [playing |-> p, record_enabled |-> r, scheduled_task |-> s, tasks |-> ts]

\* _schedule_debounced_light_change that keeps a task still asleep and
\* drops the new target.
schedule_keeping_old(st, lights_on, wake) ==
    IF st.scheduled_task # 0 /\ st.tasks[st.scheduled_task].state = "sleeping"
    THEN st
    ELSE LET cancelled ==
                 IF st.scheduled_task = 0 THEN st.tasks
                 ELSE [st.tasks EXCEPT ![st.scheduled_task] = CancelOne(@)]
         IN  [st EXCEPT !.tasks = Append(cancelled, NewTask(lights_on, wake)),
                        !.scheduled_task = Len(st.tasks) + 1]

\* _schedule_debounced_light_change without the cancel of the old task.
NoCancelSchedule(st, lights_on, wake) ==
    [st EXCEPT !.tasks = Append(st.tasks, NewTask(lights_on, wake)),
               !.scheduled_task = Len(st.tasks) + 1]

\* A scheduler that takes a target opposite to the pending one as undoing
\* it: it cancels the pending task and schedules nothing.
schedule_cancelling_out(st, lights_on, wake) ==
    IF /\ st.scheduled_task # 0
       /\ st.tasks[st.scheduled_task].state = "sleeping"
       /\ st.tasks[st.scheduled_task].lights_on # lights_on
    THEN [st EXCEPT !.tasks[st.scheduled_task] = CancelOne(@)]
    ELSE LET cancelled ==
                 IF st.scheduled_task # 0
                 THEN [st.tasks EXCEPT ![st.scheduled_task] = CancelOne(@)]
                 ELSE st.tasks
         IN  [st EXCEPT !.tasks = Append(cancelled, NewTask(lights_on, wake)),
                        !.scheduled_task = Len(st.tasks) + 1]

\* MidiHandler._schedule_debounced_light_change
schedule_debounced_light_change(st, lights_on, wake) ==
    LET cancelled ==
            IF st.scheduled_task # 0
            THEN [st.tasks EXCEPT ![st.scheduled_task] = CancelOne(@)]
            ELSE st.tasks
    IN  [st EXCEPT !.tasks = Append(cancelled, NewTask(lights_on, wake)),
                   !.scheduled_task = Len(st.tasks) + 1]

\* on_play_changed that submits only when the play flag changes value.
on_play_changed_on_change_only(st, midi_value, wake) ==
    LET st1 == [st EXCEPT !.playing = (midi_value > 0)]
    IN  IF st1.record_enabled /\ st1.playing # st.playing
        THEN schedule_debounced_light_change(st1, st1.playing, wake)
        ELSE st1

\* _on_play_changed without its `if self.record_enabled`.
on_play_changed_always(st, midi_value, wake) ==
    LET st1 == [st EXCEPT !.playing = (midi_value > 0)]
    IN  schedule_debounced_light_change(st1, st1.playing, wake)

\* _on_play_changed that asks for the lights only when playback starts.
on_play_changed_start_only(st, midi_value, wake) ==
    LET st1 == [st EXCEPT !.playing = (midi_value > 0)]
    IN  IF st1.record_enabled /\ st1.playing
        THEN schedule_debounced_light_change(st1, st1.playing, wake)
        ELSE st1

\* MidiHandler._on_play_changed
on_play_changed(st, midi_value, wake) ==
    LET st1 == [st EXCEPT !.playing = (midi_value > 0)]
    IN  IF st1.record_enabled
        THEN schedule_debounced_light_change(st1, st1.playing, wake)
        ELSE st1

\* on_record_changed that submits the play flag in place of the record flag.
on_record_changed_submits_playing(st, midi_value, wake) ==
    LET st1 == [st EXCEPT !.record_enabled = (midi_value > 0)]
    IN  IF st1.playing
        THEN schedule_debounced_light_change(st1, st1.playing, wake)
        ELSE st1

\* on_record_changed that takes the upper half of the value range as on.
on_record_changed_threshold(st, midi_value, wake) ==
    LET st1 == [st EXCEPT !.record_enabled = (midi_value >= 64)]
    IN  IF st1.playing
        THEN schedule_debounced_light_change(st1, st1.record_enabled, wake)
        ELSE st1

\* _on_record_changed that also submits when armed while stopped.
on_record_changed_eager(st, midi_value, wake) ==
    LET st1 == [st EXCEPT !.record_enabled = (midi_value > 0)]
    IN  IF st1.playing \/ st1.record_enabled
        THEN schedule_debounced_light_change(st1, st1.record_enabled, wake)
        ELSE st1

\* MidiHandler._on_record_changed
on_record_changed(st, midi_value, wake) ==
    LET st1 == [st EXCEPT !.record_enabled = (midi_value > 0)]
    IN  IF st1.playing
        THEN schedule_debounced_light_change(st1, st1.record_enabled, wake)
        ELSE st1

\* MidiHandler.cc_action_map: a dict built record first, play second, so
\* the play handler wins when both controls carry the same number.
cc_action(cc_number) ==
    IF cc_number = cc_play THEN "play"
    ELSE IF cc_number = cc_record THEN "record"
    ELSE "none"

\* _process_midi_message without the test of the status byte.
process_midi_message_any_status(st, message, wake) ==
    IF Len(message) < 3 THEN st
    ELSE IF cc_action(message[2]) = "play"
         THEN on_play_changed(st, message[3], wake)
    ELSE IF cc_action(message[2]) = "record"
         THEN on_record_changed(st, message[3], wake)
    ELSE st

\* MidiHandler._process_midi_message
process_midi_message(st, message, wake) ==
    IF Len(message) < 3 THEN st
    ELSE IF message[1] # CC_STATUS THEN st
    ELSE IF cc_action(message[2]) = "play"
         THEN on_play_changed(st, message[3], wake)
    ELSE IF cc_action(message[2]) = "record"
         THEN on_record_changed(st, message[3], wake)
    ELSE st

\* control_all_devices that leaves out the devices that have failed before.
control_all_devices_skipping_failed(t, devs) ==
    [t EXCEPT !.state = "firing", !.deadline = 0,
              !.cmd = [d \in Roster |->
                          IF d \in devs \ failure_log THEN "inflight"
                          ELSE "idle"]]

\* control_all_devices that dispatches to the whole roster, resolved or not.
control_all_devices_whole_roster(t, devs) ==
    [t EXCEPT !.state = "firing", !.deadline = 0,
              !.cmd = [d \in Roster |-> "inflight"]]

\* ------------------------------------------------------------ the fan-out
\* A fan-out that leaves the task's timer armed.
control_all_devices_rearmed(t, devs) ==
    [t EXCEPT !.cmd = [d \in Roster |-> IF d \in devs THEN "inflight"
                                        ELSE "idle"]]

\* DeviceManager.control_all_devices up to its await: one
\* _control_single_device per entry of self.devices, each started.
control_all_devices(t, devs) ==
    [t EXCEPT !.state = "firing", !.deadline = 0,
              !.cmd = [d \in Roster |-> IF d \in devs THEN "inflight"
                                        ELSE "idle"]]

\* The gather is done when no child is running; the task then returns.
GatherDone(cmd) == \A d \in Roster : cmd[d] # "inflight"

\* A failure that escapes the coroutine and the gather: the siblings still
\* running are cancelled and the task ends with the exception.
control_single_device_aborting(t, d, ok) ==
    IF ok
    THEN LET cmd == [t.cmd EXCEPT ![d] = "ok"]
         IN  IF \A e \in Roster : cmd[e] # "inflight"
             THEN [t EXCEPT !.state = "done", !.cmd = NoCommands]
             ELSE [t EXCEPT !.cmd = cmd]
    ELSE [t EXCEPT !.state = "raised",
                   !.cmd = [e \in Roster |->
                              IF e # d /\ t.cmd[e] = "inflight"
                              THEN "cancelled" ELSE "idle"]]

\* DeviceManager._control_single_device: the awaited turn_on/turn_off
\* returns (ok = TRUE) or raises (ok = FALSE, caught and logged).
control_single_device(t, d, ok) ==
    LET cmd == [t.cmd EXCEPT ![d] = IF ok THEN "ok" ELSE "failed"]
    IN  IF GatherDone(cmd)
        THEN [t EXCEPT !.state = "done", !.cmd = NoCommands]
        ELSE [t EXCEPT !.cmd = cmd]

\* ------------------------------------------------------- the configuration
\* The configuration file: whether it exists and parses, the top-level
\* sections of its JSON object and, for each entry of its "devices" list,
\* the keys the entry has.
required_sections == {"midi", "network", "devices"}
required_fields == {"name", "location", "type", "device_id"}

\* The "type" of each entry of the "devices" list of the good file.
ValidTypes == [d \in Roster |-> "socket"]

ValidConfig ==
    [file |-> "ok", sections |-> required_sections,
     devs |-> [d \in Roster |-> required_fields], types |-> ValidTypes]

\* The good file, and the files with one defect: no file, no JSON, a
\* section left out, an empty device list, a device without one key.
Configs ==
    {ValidConfig}
    \cup {[file |-> f, sections |-> {}, devs |-> <<>>, types |-> <<>>] :
              f \in {"absent", "invalid_json"}}
    \cup {[ValidConfig EXCEPT !.sections = required_sections \ {sec},
                              !.devs = IF sec = "devices" THEN <<>> ELSE @] :
              sec \in required_sections}
    \cup {[ValidConfig EXCEPT !.devs = <<>>]}
    \cup {[ValidConfig EXCEPT !.devs[d] = required_fields \ {fld}] :
              d \in Roster, fld \in required_fields}

\* Files that name a device of a kind the controller does not know: entry
\* d is a "dimmer", the others are bulbs and sockets spelt in capitals.
KindConfigs ==
    {[ValidConfig EXCEPT !.types =
          [e \in Roster |-> IF e = d THEN "dimmer"
                            ELSE IF e % 2 = 1 THEN "BULB" ELSE "Socket"]] :
        d \in Roster}

\* str.lower on the kinds that occur.
lower(kind) ==
    CASE kind \in {"socket", "Socket"} -> "socket"
      [] kind \in {"bulb", "BULB"} -> "bulb"
      [] OTHER -> kind

\* _create_device_instance that compares the kind as it is spelt.
create_device_instance_case_sensitive(kind) ==
    IF kind = "socket" THEN "SmartPlug"
    ELSE IF kind = "bulb" THEN "SmartBulb"
    ELSE "ConfigurationError"

\* DeviceManager._create_device_instance: the class of the handle made, or
\* the exception raised.
create_device_instance(kind) ==
    IF lower(kind) = "socket" THEN "SmartPlug"
    ELSE IF lower(kind) = "bulb" THEN "SmartBulb"
    ELSE "ConfigurationError"

\* Configuration._load_config: TRUE when it returns, FALSE when it raises
\* ConfigurationError.
load_config(c) == c.file = "ok"

\* _validate_config that does not look at the devices' keys.
validate_config_sections_only(c) ==
    /\ required_sections \subseteq c.sections
    /\ c.devs # <<>>

\* Configuration._validate_config: TRUE when it returns, FALSE when it
\* raises ConfigurationError.
validate_config(c) ==
    /\ required_sections \subseteq c.sections
    /\ c.devs # <<>>
    /\ \A i \in 1..Len(c.devs) : required_fields \subseteq c.devs[i]

\* ---------------------------------------------------------------- actions
TypeOK ==
    /\ config \in Configs \cup KindConfigs
    /\ phase \in {"new", "config_error", "start", "discovery_error",
                 "monitor", "stopped", "exited"}
    /\ ip_address \subseteq Roster
    /\ devices \subseteq Roster
    /\ failure_log \subseteq Roster
    /\ playing \in BOOLEAN /\ record_enabled \in BOOLEAN
    /\ scheduled_task \in 0..Len(tasks)
    /\ debounce_time \in Nat
    /\ now \in Nat
    /\ script_pos \in 0..Len(script)

\* The process at the start of main, before the controller is built.
Init ==
    /\ config \in Configs
    /\ phase = "new"
    /\ debounce_time \in DebounceTimes
    /\ devices = {}
    /\ ip_address = {}
    /\ playing = FALSE
    /\ record_enabled = FALSE
    /\ scheduled_task = 0
    /\ tasks = <<>>
    /\ fanlog = <<>>
    /\ failure_log = {}
    /\ now = 0
    /\ script = <<>>
    /\ script_pos = 0

\* RecordingLightController.__init__ called by main: Configuration loads and
\* validates the file; on ConfigurationError the constructor re-raises and
\* main exits before run is called.
Construct ==
    /\ phase = "new"
    /\ phase' = IF load_config(config) /\ validate_config(config)
                THEN "start" ELSE "config_error"
    /\ UNCHANGED <<config, debounce_time, devices, ip_address,
                   playing, record_enabled,
                   scheduled_task, tasks, fanlog, failure_log, now, script,
                   script_pos>>

\* RecordingLightController.run up to monitor_midi.  Discovery finds the
\* devices `found` of the roster on the network, in some order;
\* _match_devices sets the address of each and makes its handle.  When
\* _create_device_instance raises for entry b, the entries matched before
\* it keep their handles, b keeps its address, and the exception leaves
\* discover_devices, run and main.  Otherwise, with no match run returns,
\* else the port is opened.
Discover ==
    /\ phase = "start"
    /\ \E found \in SUBSET Roster :
          LET raising == {d \in found :
                            create_device_instance(config.types[d])
                               = "ConfigurationError"}
          IN  IF raising = {}
              THEN /\ devices' = found
                   /\ ip_address' = found
                   /\ phase' = IF found = {} THEN "stopped" ELSE "monitor"
              ELSE \E b \in raising : \E before \in SUBSET (found \ raising) :
                      /\ devices' = before
                      /\ ip_address' = before \cup {b}
                      /\ phase' = "discovery_error"
    /\ UNCHANGED <<config, debounce_time, playing, record_enabled,
                   scheduled_task,
                   tasks, fanlog, failure_log, now, script, script_pos>>

\* An iteration that writes the flags of `message` but leaves the
\* submission to the scheduler for later.
HandleFlagsOnly(message) ==
    LET st == process_midi_message(
                  MidiState(playing, record_enabled, scheduled_task, tasks),
                  message, now + debounce_time)
    IN  /\ Len(st.tasks) <= MaxTasks
        /\ playing' = st.playing
        /\ record_enabled' = st.record_enabled
        /\ UNCHANGED <<scheduled_task, tasks>>
        /\ UNCHANGED <<phase, config, debounce_time, devices, ip_address,
                       fanlog,
                       failure_log, now, script>>

\* One iteration of monitor_midi that reads `message`.
Handle(message) ==
    LET st == process_midi_message(
                  MidiState(playing, record_enabled, scheduled_task, tasks),
                  message, now + debounce_time)
    IN  /\ Len(st.tasks) <= MaxTasks
        /\ playing' = st.playing
        /\ record_enabled' = st.record_enabled
        /\ scheduled_task' = st.scheduled_task
        /\ tasks' = st.tasks
        /\ UNCHANGED <<phase, config, debounce_time, devices, ip_address,
                       fanlog, failure_log,
                       now, script>>

MonitorMidi ==
    /\ phase = "monitor"
    /\ script = <<>>
    /\ \E message \in Messages : Handle(message)
    /\ UNCHANGED script_pos

\* A sleeping task whose timer is due.
Due(t) == t.state = "sleeping" /\ now >= t.deadline

\* _debounced_light_change after its sleep: the call of control_all_devices.
Fire ==
    /\ phase = "monitor"
    /\ \E i \in 1..Len(tasks) :
          /\ Due(tasks[i])
          /\ tasks' = [tasks EXCEPT ![i] = control_all_devices(@, devices)]
          /\ fanlog' = Append(fanlog, [task |-> i,
                                       lights_on |-> tasks[i].lights_on,
                                       to |-> devices])
    /\ UNCHANGED <<phase, config, debounce_time, devices, ip_address,
                   playing, record_enabled,
                   scheduled_task,
                   failure_log, now, script, script_pos>>

\* A device answers its command.
DeviceSucceeds ==
    /\ \E i \in 1..Len(tasks) : \E d \in Roster :
          /\ tasks[i].state = "firing" /\ tasks[i].cmd[d] = "inflight"
          /\ tasks' = [tasks EXCEPT ![i] = control_single_device(@, d, TRUE)]
    /\ UNCHANGED <<phase, config, debounce_time, devices, ip_address,
                   playing, record_enabled,
                   scheduled_task,
                   fanlog, failure_log, now, script, script_pos>>

\* A failing command that also marks the session as stopped.
DeviceFailsStopping ==
    /\ \E i \in 1..Len(tasks) : \E d \in Roster :
          /\ tasks[i].state = "firing" /\ tasks[i].cmd[d] = "inflight"
          /\ tasks' = [tasks EXCEPT ![i] = control_single_device(@, d, FALSE)]
          /\ failure_log' = failure_log \cup {d}
    /\ playing' = FALSE
    /\ UNCHANGED <<phase, config, debounce_time, devices, ip_address,
                   record_enabled,
                   scheduled_task,
                   fanlog, now, script, script_pos>>

\* A device's command raises (timeout, refusal, unreachable):
\* _control_single_device logs the error and returns.
DeviceFails ==
    /\ \E i \in 1..Len(tasks) : \E d \in Roster :
          /\ tasks[i].state = "firing" /\ tasks[i].cmd[d] = "inflight"
          /\ tasks' = [tasks EXCEPT ![i] = control_single_device(@, d, FALSE)]
          /\ failure_log' = failure_log \cup {d}
    /\ UNCHANGED <<phase, config, debounce_time, devices, ip_address,
                   playing, record_enabled,
                   scheduled_task,
                   fanlog, now, script, script_pos>>

\* The scripted message that is next, if any is left.
ScriptNext == script[script_pos + 1]
ScriptLeft == script_pos < Len(script)

\* The last tick: MaxTime, or for a scripted session the tick after the
\* last scripted message's debounce has run out.
Horizon ==
    IF script = <<>> THEN MaxTime
    ELSE script[Len(script)].at + debounce_time + 1

\* The clock moves on: no timer is due and no scripted message is due.
Tick ==
    /\ phase = "monitor"
    /\ now < Horizon
    /\ \A i \in 1..Len(tasks) : ~Due(tasks[i])
    /\ ScriptLeft => now < ScriptNext.at
    /\ now' = now + 1
    /\ UNCHANGED <<phase, config, debounce_time, devices, ip_address,
                   playing, record_enabled,
                   scheduled_task,
                   tasks, fanlog, failure_log, script, script_pos>>

Next ==
    \/ Construct
    \/ Discover
    \/ MonitorMidi
    \/ Fire
    \/ DeviceSucceeds
    \/ DeviceFails
    \/ Tick

Spec == Init /\ [][Next]_vars

\* The controller started on a file that names a device of an unknown kind.
InitKinds ==
    /\ config \in KindConfigs
    /\ phase = "new"
    /\ debounce_time \in DebounceTimes
    /\ devices = {}
    /\ ip_address = {}
    /\ playing = FALSE
    /\ record_enabled = FALSE
    /\ scheduled_task = 0
    /\ tasks = <<>>
    /\ fanlog = <<>>
    /\ failure_log = {}
    /\ now = 0
    /\ script = <<>>
    /\ script_pos = 0

SpecKinds == InitKinds /\ [][Next]_vars

\* ------------------------------------------------------ scripted sessions
\* The DAW sends a fixed list of messages at fixed ticks; all the roster
\* is resolved and the port is open.
RecordOn == <<CC_STATUS, cc_record, 127>>
PlayOn == <<CC_STATUS, cc_play, 127>>
PlayOff == <<CC_STATUS, cc_play, 0>>

\* record on, then play on, at any two ticks
ArmThenPlayScripts ==
    {<<[at |-> p[1], msg |-> RecordOn], [at |-> p[2], msg |-> PlayOn]>> :
        p \in {q \in (0..MaxTime) \X (0..MaxTime) : q[1] <= q[2]}}

\* 250 ms debounce (5 ticks); record on at 0 ms, play on at 100 ms, play
\* off at 400 ms
EndToEnd ==
    [debounce_time |-> 5,
     script |-> <<[at |-> 0, msg |-> RecordOn], [at |-> 2, msg |-> PlayOn],
                  [at |-> 8, msg |-> PlayOff]>>]

\* Messages of the free scripts: those of the port, and the control
\* changes with the smallest non-zero value.
ScriptMessages ==
    Messages \cup {<<CC_STATUS, c, 1>> : c \in {cc_play, cc_record}}

\* The ticks of the three messages of a free script: two messages in one
\* tick, or one message a tick.
ScriptTimes == {<<0, 0, 2>>, <<0, 1, 2>>}

\* any three messages
FreeScripts ==
    {[k \in 1..3 |-> [at |-> at[k], msg |-> m[k]]] :
        at \in ScriptTimes, m \in [1..3 -> ScriptMessages]}

Scenarios ==
    {[debounce_time |-> b, script |-> sc] :
        b \in DebounceTimes, sc \in ArmThenPlayScripts \cup FreeScripts}
    \cup {EndToEnd}

InitScripted ==
    /\ config = ValidConfig
    /\ phase = "monitor"
    /\ devices = Roster
    /\ ip_address = Roster
    /\ \E sc \in Scenarios :
          debounce_time = sc.debounce_time /\ script = sc.script
    /\ script_pos = 0
    /\ playing = FALSE
    /\ record_enabled = FALSE
    /\ scheduled_task = 0
    /\ tasks = <<>>
    /\ fanlog = <<>>
    /\ failure_log = {}
    /\ now = 0

\* One iteration of monitor_midi that reads the scripted message now due.
ScriptedMidi ==
    /\ phase = "monitor"
    /\ ScriptLeft
    /\ now = ScriptNext.at
    /\ Handle(ScriptNext.msg)
    /\ script_pos' = script_pos + 1

\* get_message raises in an iteration of monitor_midi: the handler of
\* monitor_midi logs and re-raises, run re-raises after cleanup and main
\* calls sys.exit(1); the loop shuts down and cancels the tasks still
\* running.
MidiReadError ==
    /\ phase = "monitor"
    /\ phase' = "exited"
    /\ tasks' = [i \in 1..Len(tasks) |-> CancelOne(tasks[i])]
    /\ UNCHANGED <<config, debounce_time, devices, ip_address,
                   playing, record_enabled,
                   scheduled_task, fanlog, failure_log, now, script,
                   script_pos>>

NextScripted ==
    \/ ScriptedMidi
    \/ MidiReadError
    \/ Fire
    \/ DeviceSucceeds
    \/ DeviceFails
    \/ Tick

SpecScripted == InitScripted /\ [][NextScripted]_vars

\* A scripted session in which every read of the port succeeds.  The event
\* loop runs a timer that is due, its clock moves on, and monitor_midi
\* polls the port every 5 ms: each of these steps is taken once it stays
\* enabled.
NextFair ==
    \/ ScriptedMidi
    \/ Fire
    \/ DeviceSucceeds
    \/ DeviceFails
    \/ Tick

SpecFair ==
    /\ InitScripted
    /\ [][NextFair]_vars
    /\ WF_vars(ScriptedMidi)
    /\ WF_vars(Fire)
    /\ WF_vars(Tick)

\* ----------------------------------------------------------------- claims
\* playing AND recordArmed
Conj == playing /\ record_enabled

\* The calls of control_all_devices made by task i.
FanoutsOf(i) == {k \in 1..Len(fanlog) : fanlog[k].task = i}

\* Task t was cancelled during its sleep / cancelled during its fan-out.
CancelledAsleep(t) == t.state = "cancelled" /\ t.cmd = NoCommands
CancelledFiring(t) == t.state = "cancelled" /\ t.cmd # NoCommands

\* C1: every step that submits a target to the scheduler creates exactly
\* one task, and the target it carries is (playing AND recordArmed) as the
\* flags stand right after the event's update.
C1_SubmittedTargetIsConjunction ==
    [][Len(tasks') # Len(tasks) =>
          /\ Len(tasks') = Len(tasks) + 1
          /\ tasks'[Len(tasks')].lights_on = (playing' /\ record_enabled')]_vars

\* Targets of both values have been submitted, the last one by a record
\* event (record went off during playback).
C1_Witness ==
    /\ Len(tasks) >= 2
    /\ tasks[1].lights_on = TRUE
    /\ tasks[Len(tasks)].lights_on = FALSE
    /\ playing /\ ~record_enabled

\* C2: a step that changes the value of (playing AND recordArmed), in
\* either direction, submits the new value: it appends a sleeping task
\* carrying it and installs it as the scheduled task.
C2_EveryFlipSubmits ==
    [][Conj # (playing' /\ record_enabled') =>
          /\ Len(tasks') = Len(tasks) + 1
          /\ scheduled_task' = Len(tasks')
          /\ tasks'[Len(tasks')].state = "sleeping"
          /\ tasks'[Len(tasks')].lights_on = (playing' /\ record_enabled')]_vars

\* The conjunction has gone up and then down by play events: the second
\* task carries FALSE, submitted when playback stopped while armed.
C2_Witness ==
    /\ Len(tasks) = 2
    /\ tasks[1].lights_on = TRUE
    /\ tasks[2].lights_on = FALSE
    /\ ~playing /\ record_enabled

\* C3: a step that sets recordArmed to true while playing is false
\* submits nothing: the scheduled task, every task and the fan-out log
\* are left as they were.
C3_ArmWhileStoppedSubmitsNothing ==
    [][(~record_enabled /\ record_enabled' /\ ~playing') =>
          UNCHANGED <<scheduled_task, tasks, fanlog, failure_log>>]_vars

\* Armed while stopped with nothing ever submitted: only a record-on event
\* received while stopped leads here.
C3_Witness ==
    /\ phase = "monitor"
    /\ record_enabled /\ ~playing
    /\ tasks = <<>> /\ scheduled_task = 0 /\ fanlog = <<>>

\* Task i has begun its fan-out.
Fired(t) == t.state \in {"firing", "done"} \/ CancelledFiring(t)

\* C4: a submission made while a task sleeps cancels that task, a task
\* cancelled in its sleep never runs again and no fan-out call is ever made
\* for it, so only the superseding target is applied; and while a task
\* sleeps the monitor loop can still handle a message.
C4_SupersededTargetNeverApplied ==
    /\ [][\A i \in 1..Len(tasks) :
            /\ (tasks[i].state = "sleeping" /\ Len(tasks') > Len(tasks))
                  => CancelledAsleep(tasks'[i])
            /\ CancelledAsleep(tasks[i]) => tasks'[i] = tasks[i]
            /\ (Len(fanlog') > Len(fanlog) /\ fanlog'[Len(fanlog')].task = i)
                  => tasks[i].state = "sleeping"]_vars
    /\ [](\A i \in 1..Len(tasks) :
            CancelledAsleep(tasks[i]) => FanoutsOf(i) = {})
    /\ []((/\ phase = "monitor" /\ script = <<>>
           /\ Len(tasks) < MaxTasks
           /\ \E i \in 1..Len(tasks) : tasks[i].state = "sleeping")
          => ENABLED MonitorMidi)

\* A target was superseded in its sleep by the opposite target, which
\* alone was applied.
C4_Witness ==
    /\ Len(tasks) = 2
    /\ CancelledAsleep(tasks[1])
    /\ tasks[1].lights_on # tasks[2].lights_on
    /\ tasks[2].state = "done"
    /\ Len(fanlog) = 1 /\ fanlog[1].task = 2
    /\ fanlog[1].lights_on = tasks[2].lights_on

\* C5: at most one task is asleep with its timer armed, and it is the
\* scheduled task.
C5_AtMostOneArmed ==
    /\ Cardinality({i \in 1..Len(tasks) : tasks[i].state = "sleeping"}) <= 1
    /\ \A i \in 1..Len(tasks) :
          tasks[i].state = "sleeping" => scheduled_task = i

\* A third task is armed after two earlier ones were cancelled in their
\* sleep.
C5_Witness ==
    /\ Len(tasks) = 3
    /\ CancelledAsleep(tasks[1]) /\ CancelledAsleep(tasks[2])
    /\ tasks[3].state = "sleeping"

\* C6: no task makes more than one fan-out call; a task whose sleep ended
\* without a cancel has made exactly one, with its own target; a sleeping
\* task has made none and is never asleep past its deadline.
C6_FanoutExactlyOnce ==
    \A i \in 1..Len(tasks) :
        /\ Cardinality(FanoutsOf(i)) <= 1
        /\ Fired(tasks[i]) =>
              /\ Cardinality(FanoutsOf(i)) = 1
              /\ \A k \in FanoutsOf(i) :
                    fanlog[k].lights_on = tasks[i].lights_on
        /\ tasks[i].state = "sleeping" =>
              FanoutsOf(i) = {} /\ now <= tasks[i].deadline

\* One task was cancelled while its fan-out ran and the next task has
\* fired and finished: each has made its single call.
C6_Witness ==
    /\ Len(tasks) = 2
    /\ CancelledFiring(tasks[1])
    /\ tasks[2].state = "done"
    /\ Len(fanlog) = 2

\* C7: in a burst of submissions, each made while the previous task still
\* sleeps, the cancelled tasks make no fan-out call, the last task is
\* never dropped and never sleeps past its deadline, the fan-out calls are
\* exactly those of the tasks whose sleep ended uncancelled, one each, and
\* each call carries (playing AND recordArmed) as the flags stand when it
\* is made.
C7_OneFanoutPerBurst ==
    /\ [](/\ \A i \in 1..Len(tasks) :
               /\ CancelledAsleep(tasks[i]) => FanoutsOf(i) = {}
               /\ Fired(tasks[i]) => Cardinality(FanoutsOf(i)) = 1
               /\ tasks[i].state = "sleeping" => now <= tasks[i].deadline
           /\ Len(fanlog) =
                 Cardinality({j \in 1..Len(tasks) : Fired(tasks[j])})
           /\ scheduled_task # 0 =>
                 ~CancelledAsleep(tasks[scheduled_task]))
    /\ [][Len(fanlog') > Len(fanlog) =>
             /\ Len(fanlog') = Len(fanlog) + 1
             /\ fanlog'[Len(fanlog')].lights_on = Conj
             /\ UNCHANGED <<playing, record_enabled>>]_vars

\* A then B then A inside one window: the first two tasks were cancelled
\* in their sleep and the single fan-out call carries A.
C7_Witness ==
    /\ Len(tasks) = 3
    /\ tasks[1].lights_on = tasks[3].lights_on
    /\ tasks[2].lights_on # tasks[3].lights_on
    /\ CancelledAsleep(tasks[1]) /\ CancelledAsleep(tasks[2])
    /\ tasks[3].state = "done"
    /\ Len(fanlog) = 1
    /\ fanlog[1].task = 3 /\ fanlog[1].lights_on = tasks[3].lights_on

\* C8: in a session of record on and then play on, from both flags false
\* and nothing pending, nothing is submitted and no fan-out call is made
\* until play on has been handled, and every fan-out call is made a full
\* debounce time or more after the play-on message, by the task that
\* message submitted, carrying TRUE.
C8_NoFanoutBeforePlayPlusDelay ==
    script \in ArmThenPlayScripts =>
        /\ script_pos < 2 => tasks = <<>> /\ fanlog = <<>>
        /\ (record_enabled /\ ~playing) => fanlog = <<>>
        /\ fanlog # <<>> =>
              /\ script_pos = 2
              /\ now >= script[2].at + debounce_time
        /\ \A k \in 1..Len(fanlog) :
              fanlog[k].task = 1 /\ fanlog[k].lights_on = TRUE

\* Play on came inside the window opened by record on, and the fan-out
\* has been called.
C8_Witness ==
    /\ script \in ArmThenPlayScripts
    /\ script[1].at < script[2].at
    /\ script[2].at - script[1].at < debounce_time
    /\ Len(fanlog) = 1

\* The end-to-end session runs: record on at 0 ms, play on at 100 ms, play
\* off at 400 ms, 250 ms debounce, every roster entry resolved.
EndToEndRuns ==
    script = EndToEnd.script /\ debounce_time = EndToEnd.debounce_time

\* The fan-out calls of the end-to-end session: none before play on; one
\* with TRUE at play on + 250 ms, one with FALSE at play off + 250 ms, each
\* to every device.
C9_FanoutSequence ==
    EndToEndRuns =>
        LET on_at == script[2].at + debounce_time
            off_at == script[3].at + debounce_time
        IN  /\ script_pos < 2 => tasks = <<>> /\ fanlog = <<>>
            /\ Len(fanlog) <= 2
            /\ Len(fanlog) >= 1 =>
                  /\ fanlog[1] = [task |-> 1, lights_on |-> TRUE,
                                  to |-> Roster]
                  /\ now >= on_at
            /\ now > on_at => Len(fanlog) >= 1
            /\ Len(fanlog) = 2 =>
                  /\ fanlog[2] = [task |-> 2, lights_on |-> FALSE,
                                  to |-> Roster]
                  /\ now >= off_at
            /\ now > off_at => Len(fanlog) = 2

\* No command of a fan-out of the end-to-end session is cancelled in
\* flight: each reaches its device.
C9_EveryCommandReaches ==
    EndToEndRuns =>
        \A i \in 1..Len(tasks) : \A d \in devices :
            tasks[i].cmd[d] # "cancelled"

\* C9: the end-to-end session makes one turn-on fan-out about 250 ms after
\* play on and one turn-off fan-out about 250 ms after play off, each
\* reaching both devices, and no call for record on, whatever the latency
\* of the device commands.
C9_EndToEnd == C9_FanoutSequence /\ C9_EveryCommandReaches

\* C10: every fan-out call issues one command to each resolved device and
\* to no other; while a task's fan-out runs and no new target is
\* submitted, a step changes it only by one device's command ending, ok or
\* failed, with every other device's command as it was, and when the last
\* command ends, failed or not, the task is done: it never ends by an
\* exception.
C10_FailureIsIsolated ==
    /\ [](/\ \A k \in 1..Len(fanlog) : fanlog[k].to = devices
           /\ \A i \in 1..Len(tasks) :
                 /\ tasks[i].state \in
                       {"sleeping", "firing", "done", "cancelled"}
                 /\ tasks[i].state = "firing" =>
                       \A d \in Roster :
                          IF d \in devices
                          THEN tasks[i].cmd[d] \in {"inflight", "ok", "failed"}
                          ELSE tasks[i].cmd[d] = "idle")
    /\ [][\A i \in 1..Len(tasks) :
            (tasks[i].state = "firing" /\ UNCHANGED scheduled_task) =>
               \/ tasks'[i] = tasks[i]
               \/ \E d \in devices :
                     /\ tasks[i].cmd[d] = "inflight"
                     /\ \/ /\ tasks'[i].state = "firing"
                           /\ tasks'[i].cmd[d] \in {"ok", "failed"}
                           /\ \A e \in Roster \ {d} :
                                 tasks'[i].cmd[e] = tasks[i].cmd[e]
                        \/ /\ tasks'[i].state = "done"
                           /\ \A e \in devices \ {d} :
                                 tasks[i].cmd[e] \in {"ok", "failed"}]_vars

\* One device's command has failed and another device's command of the
\* same fan-out is still running.
C10_Witness ==
    \E i \in 1..Len(tasks) : \E d \in devices : \E e \in devices :
        /\ tasks[i].state = "firing"
        /\ tasks[i].cmd[d] = "failed"
        /\ tasks[i].cmd[e] = "inflight"

\* C11: a roster entry that discovery did not resolve is never sent a
\* command and never has an outcome (success, failure or cancellation) in
\* any fan-out; every fan-out dispatches to resolved entries only.
C11_UnresolvedNeverCommanded ==
    /\ \A k \in 1..Len(fanlog) : fanlog[k].to \subseteq devices
    /\ \A i \in 1..Len(tasks) : \A d \in Roster \ devices :
          tasks[i].cmd[d] = "idle"

\* A fan-out is running while a roster entry is unresolved: a resolved
\* device's command is in flight or has ended.
C11_Witness ==
    /\ Roster \ devices # {}
    /\ Len(fanlog) >= 1
    /\ \E i \in 1..Len(tasks) : \E d \in devices :
          /\ tasks[i].state = "firing"
          /\ tasks[i].cmd[d] \in {"inflight", "ok", "failed"}

\* A step in which the command of device d fails.
FailureStep(d) ==
    \/ d \in failure_log' \ failure_log
    \/ \E i \in 1..Len(tasks) :
          /\ tasks[i].state = "firing" /\ tasks[i].cmd[d] = "inflight"
          /\ i <= Len(tasks') /\ tasks'[i].cmd[d] = "failed"

\* C12: a device whose command has failed stays in the dispatch set and is
\* sent the command of every later fan-out; the failing step leaves the
\* run position, the dispatch set, playing, record_enabled, scheduled_task
\* and every sleeping task as they were and neither makes nor cancels a
\* task.
C12_FailedDeviceStaysEligible ==
    /\ [](failure_log \subseteq devices)
    /\ [][Len(fanlog') > Len(fanlog) =>
            /\ failure_log \subseteq fanlog'[Len(fanlog')].to
            /\ \A d \in failure_log :
                  tasks'[fanlog'[Len(fanlog')].task].cmd[d] = "inflight"]_vars
    /\ [][\A d \in Roster : FailureStep(d) =>
            /\ UNCHANGED <<phase, devices, playing, record_enabled,
                           scheduled_task, fanlog>>
            /\ Len(tasks') = Len(tasks)
            /\ \A j \in 1..Len(tasks) :
                  /\ tasks[j].state = "sleeping" => tasks'[j] = tasks[j]
                  /\ tasks'[j].state = "cancelled" =>
                        tasks[j].state = "cancelled"]_vars

\* A second fan-out has sent its command to a device whose command failed
\* in an earlier fan-out.
C12_Witness ==
    /\ Len(fanlog) >= 2
    /\ \E i \in 1..Len(tasks) : \E d \in failure_log :
          /\ tasks[i].state = "firing"
          /\ tasks[i].cmd[d] = "inflight"

\* The scripted message read by the step, when the step reads one.
ReadsMessage == script_pos' = script_pos + 1
MessageRead == script[script_pos + 1].msg

\* A message that is not a control change, or a control change on a
\* control that is neither play nor record.
NotForUs(m) ==
    \/ m[1] # CC_STATUS
    \/ Len(m) >= 3 /\ m[2] \notin {cc_play, cc_record}

\* C13: a message whose status byte is not 176, or a control change on
\* another control than play and record, leaves playing, record_enabled and
\* scheduled_task unchanged, makes and cancels no task and calls nothing.
C13_OtherMessagesIgnored ==
    [][(ReadsMessage /\ NotForUs(MessageRead)) =>
          UNCHANGED <<playing, record_enabled, scheduled_task, tasks,
                      fanlog>>]_vars

\* A note-on that carries the play control's number as its note has been
\* read while a debounced task was asleep.
C13_Witness ==
    /\ script_pos = 3
    /\ script[3].msg[1] # CC_STATUS
    /\ script[3].msg[2] = cc_play
    /\ scheduled_task # 0
    /\ tasks[scheduled_task].state = "sleeping"

\* C14: a control change on the play control sets playing to (value > 0)
\* and leaves record_enabled alone, one on the record control sets
\* record_enabled to (value > 0) and leaves playing alone; both are false
\* until the first message is read.
C14_FlagsFollowValue ==
    /\ [](script_pos = 0 => ~playing /\ ~record_enabled)
    /\ [][(/\ ReadsMessage
           /\ Len(MessageRead) >= 3
           /\ MessageRead[1] = CC_STATUS) =>
             /\ MessageRead[2] = cc_play =>
                   /\ playing' = (MessageRead[3] > 0)
                   /\ record_enabled' = record_enabled
             /\ MessageRead[2] = cc_record =>
                   /\ record_enabled' = (MessageRead[3] > 0)
                   /\ playing' = playing]_vars

\* Record has been switched on by the value 1 and then off by the value 0
\* while play stayed on.
C14_Witness ==
    /\ script_pos = 3
    /\ script[1].msg = PlayOn
    /\ script[2].msg = <<CC_STATUS, cc_record, 1>>
    /\ script[3].msg = <<CC_STATUS, cc_record, 0>>
    /\ playing /\ ~record_enabled
    /\ Len(tasks) = 2

\* C15: a failure to read from the port does not end the monitoring loop:
\* every step taken while monitoring leaves the controller monitoring,
\* with its sleeping tasks still armed.
C15_ReadFailureKeepsLoop ==
    [][phase = "monitor" =>
          /\ phase' = "monitor"
          /\ \A i \in 1..Len(tasks) :
                (tasks[i].state = "sleeping" /\ UNCHANGED script_pos) =>
                    tasks'[i].state # "cancelled"]_vars

\* The configuration file is missing or malformed: it is absent, is not
\* JSON, lacks a section, lists no device, or lists a device without a
\* name, location, type or device_id.
Malformed ==
    \/ config.file \in {"absent", "invalid_json"}
    \/ \E sec \in {"midi", "network", "devices"} : sec \notin config.sections
    \/ Len(config.devs) = 0
    \/ \E i \in 1..Len(config.devs) :
          \E fld \in {"name", "location", "type", "device_id"} :
             fld \notin config.devs[i]

\* C16: with a missing or malformed configuration the only step is the
\* abort with the configuration error: discovery never runs, the port is
\* never opened, no message is handled and no task or command is made.
C16_BadConfigAbortsStartup ==
    /\ [](Malformed =>
            /\ phase \in {"new", "config_error"}
            /\ devices = {} /\ ip_address = {}
            /\ ~playing /\ ~record_enabled
            /\ scheduled_task = 0 /\ tasks = <<>>
            /\ fanlog = <<>> /\ failure_log = {}
            /\ now = 0)
    /\ [][(Malformed /\ phase = "new") => phase' = "config_error"]_vars

\* Startup has aborted on a configuration whose second device has no
\* device_id.
C16_Witness ==
    /\ phase = "config_error"
    /\ config.file = "ok"
    /\ config.sections = required_sections
    /\ Len(config.devs) = NumRoster
    /\ "device_id" \notin config.devs[2]
    /\ "device_id" \in config.devs[1]

\* C17: a task that has begun its fan-out runs it to the end whatever is
\* submitted meanwhile: it is never cancelled, and no command it has sent
\* is cancelled before the device has answered.
C17_MidFireCompletes ==
    /\ [](\A i \in 1..Len(tasks) : \A d \in Roster :
            tasks[i].cmd[d] # "cancelled")
    /\ [][\A i \in 1..Len(tasks) :
            tasks[i].state = "firing" =>
               tasks'[i].state \in {"firing", "done"}]_vars

\* C18: once the task held in scheduled_task has run its fan-out to the
\* end, scheduled_task is empty again.
C18_SlotEmptyAfterFire ==
    scheduled_task # 0 => tasks[scheduled_task].state # "done"

\* C19: a step that reads a message does the whole of its handling and
\* nothing else.  The flag is written and, when the handler submits, the
\* old task is cancelled and the new one installed in that same step; the
\* clock does not move, no fan-out is called and no device command starts
\* or ends in it.  No other step writes the flags or scheduled_task or
\* makes a task, so nothing of a message's handling is left for later.
C19_MessageStepIsWhole ==
    /\ [][ReadsMessage =>
            /\ UNCHANGED <<now, fanlog, failure_log>>
            /\ \A i \in 1..Len(tasks) :
                  \/ tasks'[i] = tasks[i]
                  \/ /\ i = scheduled_task
                     /\ Len(tasks') > Len(tasks)
                     /\ tasks[i].state \in {"sleeping", "firing"}
                     /\ tasks'[i].state = "cancelled"
            /\ (Conj' # Conj \/ tasks' # tasks
                           \/ scheduled_task' # scheduled_task) =>
                  /\ Len(tasks') = Len(tasks) + 1
                  /\ scheduled_task' = Len(tasks')
                  /\ tasks'[Len(tasks')].state = "sleeping"
                  /\ tasks'[Len(tasks')].lights_on = Conj'
                  /\ scheduled_task # 0 =>
                        tasks'[scheduled_task].state \in {"done", "cancelled"}
          ]_vars
    /\ [][~ReadsMessage =>
            /\ UNCHANGED <<playing, record_enabled, scheduled_task>>
            /\ Len(tasks') = Len(tasks)]_vars

\* The third message of a script has been read in the tick in which the
\* first task was due: that task was cancelled asleep and the new one is
\* installed, with no fan-out called.
C19_Witness ==
    /\ script_pos = 3
    /\ now = script[3].at
    /\ Len(tasks) = 2
    /\ CancelledAsleep(tasks[1])
    /\ tasks[2].state = "sleeping"
    /\ tasks[2].deadline = now + debounce_time
    /\ scheduled_task = 2
    /\ fanlog = <<>>

\* A step of the timer, the fan-out or a device command: control_all_devices
\* is called, or a command of a firing task ends.
DispatchStep ==
    \/ fanlog' # fanlog
    \/ \E i \in 1..Len(tasks) :
          /\ tasks[i].state = "firing"
          /\ tasks'[i] # tasks[i]
          /\ tasks'[i].state \in {"firing", "done"}

\* C20: the timer firing, the fan-out and the device commands, successful
\* or failing, leave playing, record_enabled and scheduled_task unchanged,
\* make no task, cancel no task and re-arm no sleeping task.
C20_DispatchLeavesSessionAlone ==
    [][DispatchStep =>
          /\ UNCHANGED <<playing, record_enabled, scheduled_task>>
          /\ Len(tasks') = Len(tasks)
          /\ \A j \in 1..Len(tasks) :
                /\ tasks'[j].state = "cancelled" =>
                      tasks[j].state = "cancelled"
                /\ tasks'[j].state = "sleeping" => tasks'[j] = tasks[j]
      ]_vars

\* The task in scheduled_task has run its fan-out to the end, a command of
\* it has failed, and the session is still recording.
C20_Witness ==
    /\ playing /\ record_enabled
    /\ scheduled_task # 0
    /\ tasks[scheduled_task].state = "done"
    /\ tasks[scheduled_task].lights_on
    /\ failure_log # {}
    /\ Len(fanlog) = 1

\* C21: a task that is armed and has not fired carries the current value
\* of playing /\ record_enabled; so every call of control_all_devices
\* carries the value the conjunction has when the call is made, and the
\* lights are never switched on while playing or record_enabled is false.
C21_PendingTargetIsConjunction ==
    /\ [](\A i \in 1..Len(tasks) :
            tasks[i].state = "sleeping" => tasks[i].lights_on = Conj)
    /\ [][Len(fanlog') > Len(fanlog) =>
            /\ fanlog'[Len(fanlog')].lights_on = Conj
            /\ fanlog'[Len(fanlog')].lights_on = Conj'
            /\ fanlog'[Len(fanlog')].lights_on => playing /\ record_enabled
          ]_vars

\* The lights were switched on, the session has stopped since, and the
\* task that will switch them off is asleep.
C21_Witness ==
    /\ Len(fanlog) = 1 /\ fanlog[1].lights_on
    /\ ~Conj
    /\ Len(tasks) = 2
    /\ tasks[2].state = "sleeping" /\ ~tasks[2].lights_on

\* The step reads a control change on control number cc.
ReadsControl(cc) ==
    /\ ReadsMessage
    /\ Len(MessageRead) >= 3
    /\ MessageRead[1] = CC_STATUS
    /\ MessageRead[2] = cc

\* The step cancels the task in scheduled_task, if it is still running,
\* and arms a new one whose sleep starts now.
Resubmits ==
    /\ Len(tasks') = Len(tasks) + 1
    /\ scheduled_task' = Len(tasks')
    /\ tasks'[Len(tasks')].state = "sleeping"
    /\ tasks'[Len(tasks')].deadline = now + debounce_time
    /\ scheduled_task # 0 =>
          /\ tasks'[scheduled_task].state \in {"done", "cancelled"}
          /\ tasks[scheduled_task].state \in {"sleeping", "firing"} =>
                tasks'[scheduled_task].state = "cancelled"

\* C23: every play message read while record_enabled is true and every
\* record message read while playing is true cancels the pending task and
\* arms a new one, whatever its value; a play message while record_enabled
\* is false and a record message while playing is false submit nothing.
C23_SubmissionFollowsEvent ==
    [][/\ (ReadsControl(cc_play) /\ record_enabled) => Resubmits
       /\ (ReadsControl(cc_record) /\ playing) => Resubmits
       /\ (ReadsControl(cc_play) /\ ~record_enabled) =>
             UNCHANGED <<scheduled_task, tasks>>
       /\ (ReadsControl(cc_record) /\ ~playing) =>
             UNCHANGED <<scheduled_task, tasks>>
      ]_vars

\* Play on was repeated while armed and playing: the second play on
\* cancelled the task of the first and armed another with the same target
\* and a later deadline.
C23_Witness ==
    /\ script_pos = 3
    /\ script[2].msg = PlayOn /\ script[3].msg = PlayOn
    /\ script[2].at < script[3].at
    /\ Len(tasks) = 2
    /\ CancelledAsleep(tasks[1]) /\ tasks[1].lights_on
    /\ tasks[2].state = "sleeping" /\ tasks[2].lights_on
    /\ tasks[2].deadline = script[3].at + debounce_time

\* The script has been read to its end.
ScriptDone == script_pos = Len(script)

\* The newest task has called control_all_devices, with the current value
\* of the conjunction, and that call is the last one made.
LastTaskFired ==
    /\ tasks # <<>> /\ fanlog # <<>>
    /\ Fired(tasks[Len(tasks)])
    /\ fanlog[Len(fanlog)].task = Len(tasks)
    /\ fanlog[Len(fanlog)].lights_on = Conj

\* C22: once the messages have stopped with a target submitted, the last
\* task armed eventually calls control_all_devices, and the last call made
\* carries the final value of playing /\ record_enabled.  A call is only
\* made by the newest task once its sleep of debounce_time is over, so
\* none is made while submissions follow each other within debounce_time.
C22_LastPendingFires ==
    /\ (ScriptDone /\ tasks # <<>>) ~> (ScriptDone /\ LastTaskFired)
    /\ [](ScriptDone /\ LastTaskFired => [](ScriptDone /\ LastTaskFired))
    /\ [][Len(fanlog') > Len(fanlog) =>
            LET i == fanlog'[Len(fanlog')].task
            IN  /\ i = Len(tasks)
                /\ tasks[i].state = "sleeping"
                /\ now >= tasks[i].deadline]_vars
    /\ [][Len(tasks') > Len(tasks) =>
            tasks'[Len(tasks')].deadline = now + debounce_time]_vars

\* Two submissions followed each other within the debounce time; only the
\* task of the second has fired, after the messages had stopped.
C22_Witness ==
    /\ ScriptDone
    /\ Len(tasks) = 2
    /\ CancelledAsleep(tasks[1])
    /\ LastTaskFired
    /\ Len(fanlog) = 1
    /\ now = script[3].at + debounce_time

\* The kind of roster entry d is neither socket nor bulb in any spelling.
UnknownKind(d) ==
    config.types[d] \notin {"socket", "Socket", "SOCKET",
                            "bulb", "Bulb", "BULB"}

\* C24: a roster entry of an unknown kind passes the loading of the
\* configuration.  Discovery raises exactly when it matches such an entry:
\* startup is then over with no message handled, no task made and no
\* command sent, and the entry has its address set and no handle.  An
\* entry of an unknown kind never has a handle.
C24_UnknownKindRaisesAtMatch ==
    /\ phase # "config_error"
    /\ \A d \in devices : ~UnknownKind(d)
    /\ devices \subseteq ip_address
    /\ phase = "discovery_error" <=> \E d \in ip_address : UnknownKind(d)
    /\ phase = "discovery_error" =>
          /\ ~playing /\ ~record_enabled
          /\ scheduled_task = 0 /\ tasks = <<>>
          /\ fanlog = <<>> /\ failure_log = {}
          /\ now = 0
          /\ ~ENABLED Next

\* Discovery matched a bulb spelt in capitals, made its handle, and then
\* matched the entry of the unknown kind: startup is over, that entry has
\* an address and no handle.
C24_Witness ==
    /\ phase = "discovery_error"
    /\ \E d \in ip_address \ devices : UnknownKind(d)
    /\ \E e \in devices : config.types[e] = "BULB"

====
